---- MODULE Spec2Model ----
(***************************************************************************)
(* Model of pylib/change_geometry.py: dnbot_to_dnull(), which converts a   *)
(* half-domain ("dnbot") UEDGE solution into a full double-null ("dnull")  *)
(* solution by reflecting the field arrays along the poloidal index.       *)
(*                                                                         *)
(* A numpy array is a record [shape, rows]: shape is the tuple of extents, *)
(* rows maps a poloidal index 0..shape[1]-1 to the trailing dimensions of  *)
(* that row flattened in C order (0..Stride-1).                            *)
(***************************************************************************)
EXTENDS Integers, Sequences, FiniteSets, TLC

VARIABLES com, bbb, loc, pc, pre, regen, exmain_calls

vars == <<com, bbb, loc, pc, pre, regen, exmain_calls>>

(***************************************************************************)
(* Bounds of the model.                                                    *)
(***************************************************************************)
MaxLeg == 1     \* com.nxleg[0,k] ranges over 0..MaxLeg
MaxCore == 1    \* com.nxcore[0,k] ranges over 0..MaxCore
GridNy == 1     \* com.ny, the radial cell count of every grid
MaxNusp == 2    \* com.nusp ranges over 1..MaxNusp

\* Row amplitudes of the synthetic input fields.
Amp == {-1, 0, 1, 2}

(***************************************************************************)
(* numpy primitives used by the source.                                    *)
(***************************************************************************)
Max(a, b) == IF a >= b THEN a ELSE b

Min(a, b) == IF a <= b THEN a ELSE b

RECURSIVE Prod(_)
Prod(s) == IF s = << >> THEN 1 ELSE Head(s) * Prod(Tail(s))

\* Number of entries of one poloidal row: product of the trailing extents.
Stride(shape) == Prod(Tail(shape))

\* np.zeros(shape)
Zeros(shape) ==
  [shape |-> shape,
   rows  |-> [i \in 0..(shape[1] - 1) |-> [e \in 0..(Stride(shape) - 1) |-> 0]]]

\* Bound of a slice a[lo:hi] on an axis of extent n: negative bounds count
\* from the end, and the result is clipped to 0..n.
SliceBound(i, n) == IF i < 0 THEN Max(i + n, 0) ELSE Min(i, n)

\* a[lo:hi, ...]
GetRows(a, lo, hi) ==
  LET n   == a.shape[1]
      b   == SliceBound(lo, n)
      e   == SliceBound(hi, n)
      cnt == Max(e - b, 0)
  IN  [shape |-> <<cnt>> \o Tail(a.shape),
       rows  |-> [i \in 0..(cnt - 1) |-> a.rows[b + i]]]

\* a[lo:, ...]
GetRowsFrom(a, lo) == GetRows(a, lo, a.shape[1])

\* a[::-1, ...]
Reversed(a) ==
  [shape |-> a.shape,
   rows  |-> [i \in 0..(a.shape[1] - 1) |-> a.rows[a.shape[1] - 1 - i]]]

\* -a
Negated(a) ==
  [shape |-> a.shape,
   rows  |-> [i \in 0..(a.shape[1] - 1) |->
               [e \in DOMAIN a.rows[i] |-> 0 - a.rows[i][e]]]]

\* a[lo:hi, ...] = b ; b has as many rows as the slice (a single row is
\* broadcast).  The source relies on the extents agreeing.
SetRows(a, lo, hi, b) ==
  LET n  == a.shape[1]
      s  == SliceBound(lo, n)
      e  == SliceBound(hi, n)
  IN  [shape |-> a.shape,
       rows  |-> [i \in 0..(n - 1) |->
                   IF s <= i /\ i < e
                     THEN (IF b.shape[1] = 1 THEN b.rows[0] ELSE b.rows[i - s])
                     ELSE a.rows[i]]]

\* a[lo:, ...] = b
SetRowsFrom(a, lo, b) == SetRows(a, lo, a.shape[1], b)

\* Integer index on an axis of extent n: a negative index counts from the end.
WrapIndex(i, n) == IF i < 0 THEN i + n ELSE i

\* a[dst, ...] = a[src, ...]
CopyRow(a, dst, src) ==
  LET n == a.shape[1]
  IN  [shape |-> a.shape,
       rows  |-> [i \in 0..(n - 1) |->
                   IF i = WrapIndex(dst, n) THEN a.rows[WrapIndex(src, n)]
                                            ELSE a.rows[i]]]

\* a[:, :, :k] of a three-dimensional array
TakeSpecies(a, k) ==
  LET w  == a.shape[2]
      ns == a.shape[3]
      kk == SliceBound(k, ns)
  IN  [shape |-> <<a.shape[1], w, kk>>,
       rows  |-> [i \in 0..(a.shape[1] - 1) |->
                   [e \in 0..(w * kk - 1) |->
                     a.rows[i][(e \div kk) * ns + (e % kk)]]]]

(***************************************************************************)
(* Grid sizes of the half domain (change_geometry.py lines 31-40).         *)
(* com.nxleg and com.nxcore are stored as the pair <<[0,0], [0,1]>>.       *)
(***************************************************************************)
half_nx(c) == c.nx

half_ny(c) == c.ny

half_inner(c) == c.nxleg[1] + c.nxcore[1] + 1

half_outer(c) == c.nxleg[2] + c.nxcore[2] + 1

full_inner(c) == 2 * half_inner(c) - 2

full_outer(c) == 2 * half_outer(c) - 2

(***************************************************************************)
(* reflect_centred (lines 48-71), one operator per assignment.             *)
(***************************************************************************)
\* Mutant: the output is sized for the cells of the full grid without its
\* two guard rows.
full_shapeNoGuards(c, lower_var) ==
  <<2 * half_nx(c) - 2>> \o Tail(lower_var.shape)

\* full_shape = (2 * half_nx,) + lower_var.shape[1:]
full_shape(c, lower_var) == <<2 * half_nx(c)>> \o Tail(lower_var.shape)

\* full_var[:half_inner, :] = lower_var[:half_inner, :]
CentredLowerInner(c, full_var, lower_var) ==
  SetRows(full_var, 0, half_inner(c), GetRows(lower_var, 0, half_inner(c)))

\* Mutant: the upper inner leg is copied without the reversal.
CentredUpperInnerUnreversed(c, full_var, lower_var) ==
  SetRows(full_var, half_inner(c) - 1, 2 * half_inner(c) - 2,
          GetRows(lower_var, 0, half_inner(c) - 1))

\* full_var[half_inner-1:2*half_inner-2, :] = lower_var[:half_inner-1, :][::-1,:]
CentredUpperInner(c, full_var, lower_var) ==
  SetRows(full_var, half_inner(c) - 1, 2 * half_inner(c) - 2,
          Reversed(GetRows(lower_var, 0, half_inner(c) - 1)))

\* Mutant: the lower outer leg is read from row half_inner on.
CentredLowerOuterFromSeam(c, full_var, lower_var) ==
  SetRowsFrom(full_var, full_inner(c) + half_outer(c) - 1,
              GetRowsFrom(lower_var, half_inner(c)))

\* full_var[full_inner + half_outer-1:, :] = lower_var[half_inner+1:, :]
CentredLowerOuter(c, full_var, lower_var) ==
  SetRowsFrom(full_var, full_inner(c) + half_outer(c) - 1,
              GetRowsFrom(lower_var, half_inner(c) + 1))

\* full_var[full_inner:full_inner + half_outer-1, :] = lower_var[half_inner+1:, :][::-1,:]
CentredUpperOuter(c, full_var, lower_var) ==
  SetRows(full_var, full_inner(c), full_inner(c) + half_outer(c) - 1,
          Reversed(GetRowsFrom(lower_var, half_inner(c) + 1)))

reflect_centred(c, lower_var) ==
  LET v0 == Zeros(full_shape(c, lower_var))
      v1 == CentredLowerInner(c, v0, lower_var)
      v2 == CentredUpperInner(c, v1, lower_var)
      v3 == CentredLowerOuter(c, v2, lower_var)
      v4 == CentredUpperOuter(c, v3, lower_var)
  IN  v4

(***************************************************************************)
(* Staggered parallel flow velocity upss (lines 97-112).                   *)
(***************************************************************************)
\* np.zeros((2 * half_nx, half_ny + 2, com.nusp))
upss_shape(c) == <<2 * half_nx(c), half_ny(c) + 2, c.nusp>>

\* upss[:half_inner, :, :] = bbb.ups[:half_inner, :, :com.nusp]
FlowLowerInner(c, upss, ups) ==
  SetRows(upss, 0, half_inner(c),
          TakeSpecies(GetRows(ups, 0, half_inner(c)), c.nusp))

\* Mutant: the upper inner flow is mirrored without the change of sign.
FlowUpperInnerSameSign(c, upss, ups) ==
  SetRows(upss, half_inner(c) - 2, 2 * half_inner(c) - 3,
          Reversed(TakeSpecies(GetRows(ups, 0, half_inner(c) - 1), c.nusp)))

\* upss[half_inner-2:2*half_inner-3, :, :] = -bbb.ups[:half_inner-1, :, :com.nusp][::-1,:,:]
FlowUpperInner(c, upss, ups) ==
  SetRows(upss, half_inner(c) - 2, 2 * half_inner(c) - 3,
          Reversed(Negated(TakeSpecies(GetRows(ups, 0, half_inner(c) - 1), c.nusp))))

\* Mutant: the lower outer flow starts one row earlier, as the upper outer
\* flow does.
FlowLowerOuterShifted(c, upss, ups) ==
  SetRowsFrom(upss, full_inner(c) + half_outer(c) - 2,
              TakeSpecies(GetRowsFrom(ups, half_inner(c)), c.nusp))

\* upss[full_inner + half_outer-1:, :, :] = bbb.ups[half_inner+1:, :, :com.nusp]
FlowLowerOuter(c, upss, ups) ==
  SetRowsFrom(upss, full_inner(c) + half_outer(c) - 1,
              TakeSpecies(GetRowsFrom(ups, half_inner(c) + 1), c.nusp))

\* upss[full_inner-1:full_inner + half_outer-2, :, :] = -bbb.ups[half_inner+1:, :, :com.nusp][::-1,:,:]
FlowUpperOuter(c, upss, ups) ==
  SetRows(upss, full_inner(c) - 1, full_inner(c) + half_outer(c) - 2,
          Reversed(Negated(TakeSpecies(GetRowsFrom(ups, half_inner(c) + 1), c.nusp))))

\* upss[2*half_inner-3, :, :] = upss[2*half_inner-4, :, :]
FlowCorrection(c, upss) ==
  CopyRow(upss, 2 * half_inner(c) - 3, 2 * half_inner(c) - 4)

reflect_staggered(c, ups) ==
  LET u0 == Zeros(upss_shape(c))
      u1 == FlowLowerInner(c, u0, ups)
      u2 == FlowUpperInner(c, u1, ups)
      u3 == FlowLowerOuter(c, u2, ups)
      u4 == FlowUpperOuter(c, u3, ups)
      u5 == FlowCorrection(c, u4)
  IN  u5

(***************************************************************************)
(* Solver state.  com and bbb are the records of the solver's variables    *)
(* the function reads and writes; loc holds the function's local arrays.   *)
(***************************************************************************)
\* The cell-centred fields that are always reflected (lines 75-84).
CentredFields == {"nis", "tes", "tis", "ngs", "phis", "kye_use", "kyi_use", "dif_use"}

\* Name of the local full-domain copy of each solver field.
LocalOf ==
  [nis |-> "niss", tes |-> "tess", tis |-> "tiss", ngs |-> "ngss",
   phis |-> "phiss", kye_use |-> "kye_use", kyi_use |-> "kyi_use",
   dif_use |-> "dif_use", afracs |-> "afracs", ups |-> "upss"]

\* A local that has not been bound.
NoArray == [shape |-> << >>, rows |-> << >>]

\* com.geometry is a plain string or a character array holding a padded
\* string; chars is its text.
Dnbot == <<"d", "n", "b", "o", "t">>

Dnull == <<"d", "n", "u", "l", "l">>

Snull == <<"s", "n", "u", "l", "l">>

Geometries ==
  { [kind |-> "str",   chars |-> Dnbot],
    [kind |-> "array", chars |-> Dnbot \o <<" ", " ", " ">>],
    [kind |-> "str",   chars |-> Dnull],
    [kind |-> "array", chars |-> Snull \o <<" ", " ", " ">>] }

\* str(com.geometry): a string is itself, a character array prints as [b'...']
Str(g) ==
  IF g.kind = "array" THEN <<"[", "b", "'">> \o g.chars \o <<"'", "]">>
                      ELSE g.chars

\* sub in s
Contains(sub, s) ==
  \E i \in 1..(Len(s) - Len(sub) + 1) : SubSeq(s, i, i + Len(sub) - 1) = sub

\* Floating-point settings are kept by their decimal exponent: 1e10, 1e-8, 1e-6.
FtolLoose == 10

FtolStrict == -8

DtrealStep == -6

\* Trailing extents of each solver array on a grid c (working arrays are
\* [nx + 2, ny + 2, species], line 32).
TrailingShape(c, f) ==
  IF f \in {"nis", "ups"} THEN <<c.ny + 2, c.nusp>>
  ELSE IF f = "ngs" THEN <<c.ny + 2, 1>>
  ELSE <<c.ny + 2>>

\* A half-domain array whose poloidal row i is amp[i] * (1, 2, 3, ...).
MkField(shape, amp) ==
  [shape |-> shape,
   rows  |-> [i \in 0..(shape[1] - 1) |->
               [e \in 0..(Stride(shape) - 1) |-> amp[i] * (1 + e)]]]

\* Cell counts <<leg, core>> of one side of the half domain.
Sides == (0..MaxLeg) \X (0..MaxCore)

\* The half-domain grids: nx counts the cells of both legs and both core
\* parts; the inner side has at least one cell (half_inner >= 2).
Grids ==
  { [nxleg |-> <<inner[1], outer[1]>>, nxcore |-> <<inner[2], outer[2]>>,
     ny |-> GridNy, nusp |-> u,
     nx |-> inner[1] + inner[2] + outer[1] + outer[2]] :
      inner \in {sd \in Sides : sd[1] + sd[2] >= 1}, outer \in Sides,
      u \in 1..MaxNusp }

MkCom(g, geometry, nxomit, isudsym) ==
  [geometry |-> geometry, nx |-> g.nx, ny |-> g.ny, nxleg |-> g.nxleg,
   nxcore |-> g.nxcore, nusp |-> g.nusp, nxomit |-> nxomit, isudsym |-> isudsym]

\* amp maps a field name to the row amplitudes of that field.
MkBbb(c, amp, isfixlb, ftol, isimpon, iflcore, pcoree, pcorei) ==
  LET arr(f) == MkField(<<c.nx + 2>> \o TrailingShape(c, f), amp[f])
  IN  [nis |-> arr("nis"), tes |-> arr("tes"), tis |-> arr("tis"),
       ngs |-> arr("ngs"), phis |-> arr("phis"), kye_use |-> arr("kye_use"),
       kyi_use |-> arr("kyi_use"), dif_use |-> arr("dif_use"),
       afracs |-> arr("afracs"), ups |-> arr("ups"),
       isfixlb |-> isfixlb, restart |-> 0, newgeo |-> 0, icntnunk |-> 1,
       ftol |-> ftol, dtreal |-> 0, isimpon |-> isimpon, iflcore |-> iflcore,
       pcoree |-> pcoree, pcorei |-> pcorei]

AllFields == DOMAIN LocalOf

NoLocals == [n \in {LocalOf[f] : f \in AllFields} |-> NoArray]

(***************************************************************************)
(* The steps of dnbot_to_dnull as operators on the solver records.         *)
(***************************************************************************)
\* Mutant: the assertion accepts every double-null tag.
GeometryIsAnyDn(c) == Contains(<<"d", "n">>, Str(c.geometry))

\* assert "dnbot" in str(com.geometry)
GeometryIsDnbot(c) == Contains(Dnbot, Str(c.geometry))

\* Lines 74-112: the full-domain copies, built from the solver's arrays.
BuildCopies(c, b) ==
  [niss    |-> reflect_centred(c, b.nis),
   tess    |-> reflect_centred(c, b.tes),
   tiss    |-> reflect_centred(c, b.tis),
   ngss    |-> reflect_centred(c, b.ngs),
   phiss   |-> reflect_centred(c, b.phis),
   kye_use |-> reflect_centred(c, b.kye_use),
   kyi_use |-> reflect_centred(c, b.kyi_use),
   dif_use |-> reflect_centred(c, b.dif_use),
   afracs  |-> IF b.isimpon = 2 THEN reflect_centred(c, b.afracs) ELSE NoArray,
   upss    |-> reflect_staggered(c, b.ups)]

\* Lines 115-120, the com part: com.nxomit = 0; com.isudsym = 0; com.geometry = "dnull"
SetSwitches(c) ==
  [c EXCEPT !.nxomit = 0, !.isudsym = 0,
            !.geometry = [kind |-> "str", chars |-> Dnull]]

\* Lines 116 and 123-126 up to the call: bbb.isfixlb = 0; bbb.restart = 1;
\* bbb.newgeo = 1; bbb.icntnunk = 0; bbb.ftol = 1e10; bbb.dtreal = 1e-6
PrepareRegen(b) ==
  [b EXCEPT !.isfixlb = 0, !.restart = 1, !.newgeo = 1, !.icntnunk = 0,
            !.ftol = FtolLoose, !.dtreal = DtrealStep]

\* Mutant: the tolerance is left as loosened.
AfterRegenKeepsFtol(b) == [b EXCEPT !.newgeo = 0]

\* Lines 127-128: bbb.newgeo = 0; bbb.ftol = 1e-8
AfterRegen(b) == [b EXCEPT !.newgeo = 0, !.ftol = FtolStrict]

\* Lines 131-145: the solver's arrays are replaced by the local copies.
ReplaceState(b, l) ==
  [b EXCEPT !.nis = l.niss, !.ups = l.upss, !.tes = l.tess, !.tis = l.tiss,
            !.ngs = l.ngss, !.phis = l.phiss, !.kye_use = l.kye_use,
            !.kyi_use = l.kyi_use, !.dif_use = l.dif_use,
            !.afracs = IF b.isimpon = 2 THEN l.afracs ELSE b.afracs]

\* Mutant: only the electron core power is doubled.
DoublePowerElectronsOnly(b) ==
  IF b.iflcore = 1 THEN [b EXCEPT !.pcoree = 2 * b.pcoree] ELSE b

\* Lines 148-150: if bbb.iflcore == 1: bbb.pcoree *= 2; bbb.pcorei *= 2
DoublePower(b) ==
  IF b.iflcore = 1 THEN [b EXCEPT !.pcoree = 2 * b.pcoree, !.pcorei = 2 * b.pcorei]
                   ELSE b

\* Mutant: the copies are built from the arrays as bbb.exmain() left them.
FinishCallReflectsLate(b, l) ==
  DoublePower(ReplaceState(AfterRegen(b), BuildCopies(pre.com, b)))

\* Lines 127-150, everything after bbb.exmain() has returned.
FinishCall(b, l) == DoublePower(ReplaceState(AfterRegen(b), l))

\* Mutant: the arrays are replaced even though bbb.exmain() raised.
OnExmainErrorReplaces(c, b, l) == [com |-> c, bbb |-> ReplaceState(b, l)]

\* bbb.exmain() raised: there is no try/except, nothing after line 126 runs.
OnExmainError(c, b, l) == [com |-> c, bbb |-> b]

\* The solver's arrays after bbb.exmain() has allocated the full-domain grid
\* (poloidal extent 2 * half_nx) and written amplitude v into every row.
ExmainArrays(c, b, v) ==
  LET arr(f) == MkField(<<2 * half_nx(c)>> \o TrailingShape(c, f),
                        [i \in 0..(2 * half_nx(c) - 1) |-> v])
  IN  [b EXCEPT !.nis = arr("nis"), !.ups = arr("ups"), !.tes = arr("tes"),
                !.tis = arr("tis"), !.ngs = arr("ngs"), !.phis = arr("phis"),
                !.kye_use = arr("kye_use"), !.kyi_use = arr("kyi_use"),
                !.dif_use = arr("dif_use"), !.afracs = arr("afracs")]

\* Amplitudes bbb.exmain() may leave in the arrays.
ExmainVals == {0, 7}

FieldsOf(b) == [f \in AllFields |-> b[f]]

(***************************************************************************)
(* Initial states.                                                         *)
(***************************************************************************)
FieldIdx ==
  [nis |-> 1, tes |-> 2, tis |-> 3, ngs |-> 4, phis |-> 5, kye_use |-> 6,
   kyi_use |-> 7, dif_use |-> 8, afracs |-> 9, ups |-> 10]

\* Row amplitudes that differ from row to row and from field to field.
RampAmp(g) == [f \in AllFields |-> [i \in 0..(g.nx + 1) |-> 10 * (i + 1) + FieldIdx[f]]]

\* Row amplitudes bg everywhere except d in row k, the same for every field.
SpikeAmp(g, k, bg, d) ==
  [f \in AllFields |-> [i \in 0..(g.nx + 1) |-> IF i = k THEN d ELSE bg]]

\* Values of (com.nxomit, bbb.isfixlb, com.isudsym) before the call.
SwitchVals == {<<0, 0, 0>>, <<1, 2, 1>>}

\* Values of (bbb.pcoree, bbb.pcorei) before the call.
PowerVals == {<<3, 5>>}

\* Values of bbb.ftol before the call (decimal exponents).
FtolVals == {-8, -6}

Init ==
  \E g \in Grids, geo \in Geometries, sw \in SwitchVals, pw \in PowerVals,
     ft \in FtolVals, imp \in {0, 2}, ifl \in {0, 1, 2} :
    /\ com = MkCom(g, geo, sw[1], sw[3])
    /\ bbb = MkBbb(com, RampAmp(g), sw[2], ft, imp, ifl, pw[1], pw[2])
    /\ loc = NoLocals
    /\ pc = "start"
    /\ pre = [com |-> com, bbb |-> bbb]
    /\ regen = FieldsOf(bbb)
    /\ exmain_calls = 0

\* Inputs of the two reflections: every grid, every spike field.
InitReflect ==
  \E g \in Grids, bg \in Amp, d \in Amp :
    \E k \in 0..(g.nx + 1) :
      /\ com = MkCom(g, [kind |-> "str", chars |-> Dnbot], 0, 1)
      /\ bbb = MkBbb(com, SpikeAmp(g, k, bg, d), 2, FtolStrict, 2, 0, 3, 5)
      /\ loc = NoLocals
      /\ pc = "start"
      /\ pre = [com |-> com, bbb |-> bbb]
      /\ regen = FieldsOf(bbb)
      /\ exmain_calls = 0

(***************************************************************************)
(* Actions.                                                                *)
(***************************************************************************)
\* The assertion of line 29 fails: AssertionError, nothing else has run.
CallRejected ==
  /\ pc = "start"
  /\ ~GeometryIsDnbot(com)
  /\ pc' = "AssertionError"
  /\ UNCHANGED <<com, bbb, loc, pre, regen, exmain_calls>>

\* Lines 29-126 up to the call of bbb.exmain().
CallEnter ==
  /\ pc = "start"
  /\ GeometryIsDnbot(com)
  /\ loc' = BuildCopies(com, bbb)
  /\ com' = SetSwitches(com)
  /\ bbb' = PrepareRegen(bbb)
  /\ pc' = "exmain"
  /\ UNCHANGED <<pre, regen, exmain_calls>>

\* bbb.exmain() returns, then lines 127-150 run.
ExmainReturn ==
  /\ pc = "exmain"
  /\ \E v \in ExmainVals :
       LET b == ExmainArrays(pre.com, bbb, v)
       IN  /\ regen' = FieldsOf(b)
           /\ bbb' = FinishCall(b, loc)
  /\ exmain_calls' = exmain_calls + 1
  /\ pc' = "done"
  /\ UNCHANGED <<com, loc, pre>>

\* bbb.exmain() raises, before or after it has rewritten the arrays.
ExmainRaise ==
  /\ pc = "exmain"
  /\ \E b \in {bbb} \cup {ExmainArrays(pre.com, bbb, v) : v \in ExmainVals} :
       /\ regen' = FieldsOf(b)
       /\ bbb' = OnExmainError(com, b, loc).bbb
       /\ com' = OnExmainError(com, b, loc).com
  /\ exmain_calls' = exmain_calls + 1
  /\ pc' = "ExmainError"
  /\ UNCHANGED <<loc, pre>>

\* The reflections alone: lines 31-112 applied to the solver's arrays.
Reflect ==
  /\ pc = "start"
  /\ loc' = BuildCopies(com, bbb)
  /\ pc' = "reflected"
  /\ UNCHANGED <<com, bbb, pre, regen, exmain_calls>>

Next == CallRejected \/ CallEnter \/ ExmainReturn \/ ExmainRaise

Spec == Init /\ [][Next]_vars

NextReflect == Reflect

SpecReflect == InitReflect /\ [][NextReflect]_vars

(***************************************************************************)
(* Properties of the two reflections, checked under SpecReflect.           *)
(***************************************************************************)
HI == half_inner(pre.com)

HO == half_outer(pre.com)

FI == full_inner(pre.com)

\* The cell-centred fields reflected in this run (afracs: bbb.isimpon = 2).
Reflected == CentredFields \cup (IF pre.bbb.isimpon = 2 THEN {"afracs"} ELSE {})

\* The half-domain flow as the staggered reflection reads it.
FlowIn == TakeSpecies(bbb.ups, com.nusp)

AllEntries(row, P(_)) == \A e \in DOMAIN row : P(row[e])

IsPos(x) == x > 0

IsNeg(x) == x < 0

IsZero(x) == x = 0

NonZero(x) == x # 0

AllPositive(a) == \A i \in DOMAIN a.rows : AllEntries(a.rows[i], IsPos)

AllNonZero(a) == \A i \in DOMAIN a.rows : AllEntries(a.rows[i], NonZero)

\* C1 as stated: for every consistent cell-centred field F, the reflected
\* array G has G[i] = F[i] for every row i in [0, half_inner) and
\* G[full_inner + half_outer - 1 + k] = F[half_inner + 1 + k] for every k in
\* [0, half_outer - 1).
C1_LegsKeptAsClaimed ==
  pc = "reflected" =>
    \A f \in Reflected :
      LET F == bbb[f]
          G == loc[LocalOf[f]]
      IN  /\ \A i \in 0..(HI - 1) : G.rows[i] = F.rows[i]
          /\ \A k \in 0..(HO - 2) : G.rows[FI + HO - 1 + k] = F.rows[HI + 1 + k]

\* C1 amended: G[i] = F[i] holds for the rows i in [0, half_inner - 1) only
\* (row half_inner - 1 is overwritten by the mirrored segment), and
\* G[full_inner + half_outer - 1 + k] = F[half_inner + 1 + k] for every k in
\* [0, half_outer - 1).
C1_LegsKept ==
  pc = "reflected" =>
    \A f \in Reflected :
      LET F == bbb[f]
          G == loc[LocalOf[f]]
      IN  /\ \A i \in 0..(HI - 2) : G.rows[i] = F.rows[i]
          /\ \A k \in 0..(HO - 2) : G.rows[FI + HO - 1 + k] = F.rows[HI + 1 + k]

C1_Witness ==
  /\ pc = "reflected"
  /\ HI >= 3 /\ HO >= 3
  /\ bbb.tes.rows[HI - 1] # bbb.tes.rows[HI - 2]
  /\ bbb.tes.rows[0] # bbb.tes.rows[1]
  /\ loc.tess.rows[0] = bbb.tes.rows[0]

\* C2 as stated: for an all-positive half-domain flow, the mirrored rows
\* [half_inner-2, 2*half_inner-3) and [full_inner-1, full_inner+half_outer-2)
\* of the full-domain flow are strictly negative, and the rows [0, half_inner)
\* and [full_inner+half_outer-1, end) equal the input rows and are positive.
C2_SignsAsClaimed ==
  (pc = "reflected" /\ AllPositive(bbb.ups)) =>
    LET U == loc.upss
    IN  /\ \A r \in (HI - 2)..(2 * HI - 4) : AllEntries(U.rows[r], IsNeg)
        /\ \A r \in (FI - 1)..(FI + HO - 3) : AllEntries(U.rows[r], IsNeg)
        /\ \A i \in 0..(HI - 1) :
             U.rows[i] = FlowIn.rows[i] /\ AllEntries(U.rows[i], IsPos)
        /\ \A k \in 0..(HO - 2) :
             /\ U.rows[FI + HO - 1 + k] = FlowIn.rows[HI + 1 + k]
             /\ AllEntries(U.rows[FI + HO - 1 + k], IsPos)

\* C2 amended: for an all-positive half-domain flow, the mirrored rows
\* [half_inner-2, 2*half_inner-3) and [full_inner-1, full_inner+half_outer-2)
\* are strictly negative; the rows that equal the input and stay positive are
\* [0, half_inner-2) and [full_inner+half_outer-1, end): rows half_inner-2
\* and half_inner-1 belong to the mirrored segment.
C2_Signs ==
  (pc = "reflected" /\ AllPositive(bbb.ups)) =>
    LET U == loc.upss
    IN  /\ \A r \in (HI - 2)..(2 * HI - 4) : AllEntries(U.rows[r], IsNeg)
        /\ \A r \in (FI - 1)..(FI + HO - 3) : AllEntries(U.rows[r], IsNeg)
        /\ \A i \in 0..(HI - 3) :
             U.rows[i] = FlowIn.rows[i] /\ AllEntries(U.rows[i], IsPos)
        /\ \A k \in 0..(HO - 2) :
             /\ U.rows[FI + HO - 1 + k] = FlowIn.rows[HI + 1 + k]
             /\ AllEntries(U.rows[FI + HO - 1 + k], IsPos)

C2_Witness ==
  /\ pc = "reflected"
  /\ AllPositive(bbb.ups)
  /\ HI >= 3 /\ HO >= 3
  /\ bbb.ups.rows[0] # bbb.ups.rows[1]
  /\ AllEntries(loc.upss.rows[HI - 1], IsNeg)

C7_Mirror ==
  pc = "reflected" =>
    \A f \in Reflected :
      LET F == bbb[f]
          G == loc[LocalOf[f]]
          last == F.shape[1] - 1
      IN  /\ \A k \in 0..(HI - 2) : G.rows[HI - 1 + k] = F.rows[HI - 2 - k]
          /\ \A k \in 0..(HO - 2) : G.rows[FI + k] = F.rows[last - k]

C7_Witness ==
  /\ pc = "reflected"
  /\ HI >= 3 /\ HO >= 3
  /\ bbb.nis.rows[0] # bbb.nis.rows[1]
  /\ loc.niss.rows[HI] = bbb.nis.rows[HI - 3]
  /\ loc.niss.rows[FI] = bbb.nis.rows[HI + HO - 1]

\* C10: with half_inner >= 2 and half_outer >= 2, row
\* full_inner + half_outer - 2 of the full-domain flow is zero in every entry
\* whatever the input, and it is the only such row: every other row is an
\* input row or the negative of one, so it has no zero entry when the input
\* has none.
C10_UnwrittenRow ==
  (pc = "reflected" /\ HI >= 2 /\ HO >= 2) =>
    LET U   == loc.upss
        gap == FI + HO - 2
    IN  /\ gap \in DOMAIN U.rows
        /\ AllEntries(U.rows[gap], IsZero)
        /\ \A r \in DOMAIN U.rows \ {gap} :
             /\ \E i \in DOMAIN FlowIn.rows :
                  U.rows[r] = FlowIn.rows[i] \/ U.rows[r] = Negated(FlowIn).rows[i]
             /\ AllNonZero(bbb.ups) => AllEntries(U.rows[r], NonZero)

C10_Witness ==
  /\ pc = "reflected"
  /\ HI >= 3 /\ HO >= 3
  /\ AllNonZero(bbb.ups)
  /\ AllPositive(bbb.ups)
  /\ AllEntries(loc.upss.rows[FI + HO - 2], IsZero)
  /\ AllEntries(loc.upss.rows[FI + HO - 3], IsNeg)
  /\ AllEntries(loc.upss.rows[FI + HO - 1], IsPos)

(***************************************************************************)
(* Properties of the whole call, checked under Spec.  pre is the solver    *)
(* state at the call, regen the arrays as bbb.exmain() left them.          *)
(***************************************************************************)
DnullTag == [kind |-> "str", chars |-> Dnull]

\* C3: when the geometry tag at the call does not contain "dnbot", the call
\* ends in the assertion error with every solver variable at its pre-call
\* value, no local copy built and bbb.exmain() never invoked.
C3_RejectedUntouched ==
  (pc # "start" /\ ~Contains(Dnbot, Str(pre.com.geometry))) =>
    /\ pc = "AssertionError"
    /\ com = pre.com
    /\ bbb = pre.bbb
    /\ loc = NoLocals
    /\ exmain_calls = 0

C3_Witness ==
  /\ pc = "AssertionError"
  /\ com.geometry.chars = Dnull
  /\ com.nxomit = 1
  /\ bbb.ftol = -6
  /\ exmain_calls = 0

\* C4 as stated: after a successful call bbb.ftol equals the value it held
\* when the call was made.
C4_FtolRestoredAsClaimed == pc = "done" => bbb.ftol = pre.bbb.ftol

\* C4 amended: after a successful call bbb.ftol is 1e-8, whatever value it
\* held when the call was made; it is 1e10 while the regeneration step runs.
C4_FtolReset ==
  /\ pc = "done" => bbb.ftol = FtolStrict
  /\ pc = "exmain" => bbb.ftol = FtolLoose
  /\ pc \in {"start", "AssertionError"} => bbb.ftol = pre.bbb.ftol

C4_Witness ==
  /\ pc = "done"
  /\ pre.bbb.ftol = -6
  /\ bbb.ftol = FtolStrict
  /\ exmain_calls = 1

\* C5: after a successful call, if bbb.iflcore is 1 both bbb.pcoree and
\* bbb.pcorei are exactly twice their pre-call values, otherwise both are
\* unchanged.
C5_CorePower ==
  pc = "done" =>
    IF pre.bbb.iflcore = 1
      THEN bbb.pcoree = 2 * pre.bbb.pcoree /\ bbb.pcorei = 2 * pre.bbb.pcorei
      ELSE bbb.pcoree = pre.bbb.pcoree /\ bbb.pcorei = pre.bbb.pcorei

C5_Witness ==
  /\ pc = "done"
  /\ pre.bbb.iflcore = 1
  /\ pre.bbb.pcoree = 3 /\ bbb.pcoree = 6
  /\ pre.bbb.pcorei = 5 /\ bbb.pcorei = 10

\* C8: the solver's arrays keep their pre-call values until bbb.exmain() is
\* entered, and after a successful call each of nis, tes, tis, ngs, phis,
\* kye_use, kyi_use, dif_use and ups holds the reflection of its pre-call
\* value, whatever bbb.exmain() wrote into the arrays.
C8_SnapshotBeforeRegen ==
  /\ pc = "exmain" => (FieldsOf(bbb) = FieldsOf(pre.bbb) /\ exmain_calls = 0)
  /\ pc = "done" =>
       /\ exmain_calls = 1
       /\ \A f \in CentredFields : bbb[f] = reflect_centred(pre.com, pre.bbb[f])
       /\ bbb.ups = reflect_staggered(pre.com, pre.bbb.ups)

C8_Witness ==
  /\ pc = "done"
  /\ regen.nis # pre.bbb.nis
  /\ regen.nis # bbb.nis
  /\ regen.ups # bbb.ups
  /\ bbb.nis = loc.niss
  /\ bbb.tes # bbb.tis

\* C9: when bbb.exmain() fails the call ends in that failure with the
\* solver's arrays as bbb.exmain() left them (none replaced by a reflected
\* copy), the core powers not doubled, and geometry "dnull", nxomit 0,
\* isfixlb 0 and isudsym 0 still in place.
C9_NoRollback ==
  pc = "ExmainError" =>
    /\ exmain_calls = 1
    /\ FieldsOf(bbb) = regen
    /\ bbb.pcoree = pre.bbb.pcoree
    /\ bbb.pcorei = pre.bbb.pcorei
    /\ com.geometry = DnullTag
    /\ com.nxomit = 0
    /\ bbb.isfixlb = 0
    /\ com.isudsym = 0

C9_Witness ==
  /\ pc = "ExmainError"
  /\ pre.com.nxomit = 1 /\ pre.bbb.isfixlb = 2 /\ pre.com.isudsym = 1
  /\ pre.com.geometry.kind = "array"
  /\ pre.bbb.iflcore = 1
  /\ com.geometry = DnullTag
  /\ regen.nis # pre.bbb.nis

====
